---- MODULE Spec2Model ----
(***************************************************************************)
(* qcoin (weezy20/crng): a yes/no answer decided by the majority of        *)
(* sampled random bits.  The model follows src/src/main.rs: the entropy    *)
(* acquisition chain, the hex cache file, the seeding of the parallel      *)
(* workers, the tally reduction and the verdict.                           *)
(*                                                                         *)
(* Bytes are real bytes (0..255) and hex text is real hex text.  The sizes *)
(* 1024 (bytes per flip), 32 (seed width), 8 (bytes of a usize) and 32     *)
(* (bits of a tally counter) are scaled down so that every case of the     *)
(* code is reached by exhaustive search; each is a named bound below.      *)
(***************************************************************************)
EXTENDS Integers, Sequences, FiniteSets, TLC

(* ---------------------------------------------------------------- bounds *)

\* Stands for the literal 1024 of main.rs (lines 133, 291, 324, 359, 439).
FlipBytes == 2

\* Stands for the seed width 32 of main.rs line 298.
SeedLen == 3

\* Stands for the width in bytes of usize (flip_index.to_le_bytes(), line 315).
UsizeBytes == 2

\* Stands for the width in bits of the u32 tally counters (lines 181, 288, 309).
CounterBits == 5

\* The largest -n value of a run of the whole program.
MaxRunFlips == 3

\* The largest -n value the sampling is checked with on its own.
MaxFlips == 4

\* The largest number of runs of the program in one behaviour.
MaxRuns == 2

(* ------------------------------------------------------- bytes and text *)

Byte == 0..255

\* The byte values of the buffers the sampling is checked with.
ByteVals == {0, 15, 255}

\* The byte values the entropy sources deliver.
SourceBytes == {15, 255}

RECURSIVE Pow2(_)
Pow2(n) == IF n = 0 THEN 1 ELSE 2 * Pow2(n - 1)

\* u8::count_ones
RECURSIVE CountOnes(_)
CountOnes(b) == IF b = 0 THEN 0 ELSE (b % 2) + CountOnes(b \div 2)

\* u8::count_zeros
CountZeros(b) == 8 - CountOnes(b)

\* Bitwise exclusive or of two bytes (the ^= of line 318).
RECURSIVE XorBits(_, _, _)
XorBits(a, b, n) ==
    IF n = 0 THEN 0
    ELSE ((a + b) % 2) + 2 * XorBits(a \div 2, b \div 2, n - 1)

Xor(a, b) == XorBits(a, b, 8)

LowerHex == <<"0", "1", "2", "3", "4", "5", "6", "7",
              "8", "9", "a", "b", "c", "d", "e", "f">>

UpperHex == <<"0", "1", "2", "3", "4", "5", "6", "7",
              "8", "9", "A", "B", "C", "D", "E", "F">>

Range(s) == {s[i] : i \in DOMAIN s}

HexDigitChars == Range(LowerHex) \cup Range(UpperHex)

\* char::is_ascii_hexdigit
IsHexDigit(c) == c \in HexDigitChars

\* The value of each hex digit, either case.
HexValues ==
    [c \in HexDigitChars |->
        IF c \in Range(LowerHex)
        THEN (CHOOSE i \in DOMAIN LowerHex : LowerHex[i] = c) - 1
        ELSE (CHOOSE i \in DOMAIN UpperHex : UpperHex[i] = c) - 1]

HexVal(c) == HexValues[c]

\* char::is_whitespace, for the characters of the model.
IsSpace(c) == c \in {" ", "\n"}

\* Results of fallible calls.
Ok(v) == [ok |-> TRUE, val |-> v]

Err == [ok |-> FALSE, val |-> <<>>]

\* A variant of HexEncode that writes the low nibble first.
HexEncodeLowFirst(bytes) ==
    [i \in 1..(2 * Len(bytes)) |->
        LET b == bytes[(i + 1) \div 2]
        IN  IF i % 2 = 1 THEN LowerHex[(b % 16) + 1]
                         ELSE LowerHex[(b \div 16) + 1]]

\* hex::encode: two lower-case digits per byte, high nibble first.
HexEncode(bytes) ==
    [i \in 1..(2 * Len(bytes)) |->
        LET b == bytes[(i + 1) \div 2]
        IN  IF i % 2 = 1 THEN LowerHex[(b \div 16) + 1]
                         ELSE LowerHex[(b % 16) + 1]]

\* A variant of HexDecode that takes the low nibble of a byte first.
HexDecodeLowFirst(s) ==
    IF Len(s) % 2 # 0 \/ \E i \in DOMAIN s : ~IsHexDigit(s[i])
    THEN Err
    ELSE Ok([i \in 1..(Len(s) \div 2) |->
                HexVal(s[2 * i - 1]) + 16 * HexVal(s[2 * i])])

\* hex::decode: fails on odd length or on any character that is no hex digit.
HexDecode(s) ==
    IF Len(s) % 2 # 0 \/ \E i \in DOMAIN s : ~IsHexDigit(s[i])
    THEN Err
    ELSE Ok([i \in 1..(Len(s) \div 2) |->
                16 * HexVal(s[2 * i - 1]) + HexVal(s[2 * i])])

\* str::trim
Trim(s) ==
    LET keep == {i \in DOMAIN s : ~IsSpace(s[i])}
    IN  IF keep = {} THEN <<>>
        ELSE LET lo == CHOOSE i \in keep : \A j \in keep : i <= j
                 hi == CHOOSE i \in keep : \A j \in keep : j <= i
             IN  SubSeq(s, lo, hi)

StartsWith0x(s) == Len(s) >= 2 /\ s[1] = "0" /\ s[2] \in {"x", "X"}

\* A variant of StripPrefix that knows the lower-case prefix only.
StripPrefixLowerOnly(s) ==
    IF Len(s) >= 2 /\ s[1] = "0" /\ s[2] = "x" THEN SubSeq(s, 3, Len(s)) ELSE s

\* The optional 0x / 0X prefix removed (lines 218-222 and 257-261).
StripPrefix(s) == IF StartsWith0x(s) THEN SubSeq(s, 3, Len(s)) ELSE s

(* ------------------------------------------------------- the hex inputs *)

\* ASCII code of a character of the model (str::as_bytes, line 240).
Ascii(c) ==
    CASE c = " "  -> 32
      [] c = "\n" -> 10
      [] c = "x"  -> 120
      [] c = "X"  -> 88
      [] c = "z"  -> 122
      [] c \in {"A", "B", "C", "D", "E", "F"} -> 55 + HexVal(c)
      [] c \in {"a", "b", "c", "d", "e", "f"} -> 87 + HexVal(c)
      [] OTHER -> 48 + HexVal(c)

AsBytes(s) == [i \in DOMAIN s |-> Ascii(s[i])]

\* A variant of parse_hex_string that answers a text of odd length or with a
\* character that is no hex digit with one zero byte.
parse_hex_string_lenient(hex_input) ==
    LET trimmed == Trim(hex_input)
        hex_str == StripPrefix(trimmed)
    IN  IF hex_str = <<>> THEN Err
        ELSE IF Len(hex_str) % 2 # 0 THEN Ok(<<0>>)
        ELSE IF \E i \in DOMAIN hex_str : ~IsHexDigit(hex_str[i]) THEN Ok(<<0>>)
        ELSE HexDecode(hex_str)

\* parse_hex_string (lines 253-280).
parse_hex_string(hex_input) ==
    LET trimmed == Trim(hex_input)
        hex_str == StripPrefix(trimmed)
    IN  IF hex_str = <<>> THEN Err
        ELSE IF Len(hex_str) % 2 # 0 THEN Err
        ELSE IF \E i \in DOMAIN hex_str : ~IsHexDigit(hex_str[i]) THEN Err
        ELSE HexDecode(hex_str)

(* ------------------------------------------------------------- the files *)

DEFAULT_OUTPUT_FILE == "qrandom.bytes"

\* The other path a run may name with -o or -s.
OTHER_FILE == "out.hex"

FileNames == {DEFAULT_OUTPUT_FILE, OTHER_FILE}

\* The content of a path that holds no file.
Missing == <<"<missing>">>

\* fs::read_to_string
ReadToString(files, path) ==
    IF files[path] = Missing THEN Err ELSE Ok(files[path])

\* read_source_file (lines 210-251); every file of the model is valid UTF-8,
\* so the binary re-read of lines 244-249 sees a missing file only.
read_source_file(files, file_path) ==
    LET r == ReadToString(files, file_path)
    IN  IF ~r.ok THEN Err
        ELSE LET content == r.val
                 trimmed == Trim(content)
                 hex_str == StripPrefix(trimmed)
             IN  IF /\ Len(trimmed) > 0
                    /\ Len(hex_str) > 0
                    /\ Len(hex_str) % 2 = 0
                    /\ \A i \in DOMAIN hex_str : IsHexDigit(hex_str[i])
                    /\ HexDecode(hex_str).ok
                 THEN HexDecode(hex_str)
                 ELSE Ok(AsBytes(content))

\* load_saved_quantum_bytes (lines 282-286): always the default path, the
\* trimmed text decoded with no prefix handling.
load_saved_quantum_bytes(files) ==
    LET r == ReadToString(files, DEFAULT_OUTPUT_FILE)
    IN  IF ~r.ok THEN Err ELSE HexDecode(Trim(r.val))

(* ------------------------------------------------------------ the tallies *)

\* One more than the largest value a tally counter holds.
Modulus == Pow2(CounterBits)

\* A tally: the two counters, and whether an addition that produced them
\* overflowed (a panic with overflow checks, a wrap-around without).
Tally(o, z, v) == [ones |-> o, zeros |-> z, ovf |-> v]

\* The u32 additions of lines 186-187, 330 and 344-345.
TallyAdd(a, b) ==
    Tally((a.ones + b.ones) % Modulus,
          (a.zeros + b.zeros) % Modulus,
          \/ a.ovf \/ b.ovf
          \/ a.ones + b.ones >= Modulus
          \/ a.zeros + b.zeros >= Modulus)

\* count_bits (lines 181-191), byte by byte from the front.
RECURSIVE CountFrom(_, _, _)
CountFrom(bytes, i, acc) ==
    IF i > Len(bytes) THEN acc
    ELSE CountFrom(bytes, i + 1,
             TallyAdd(acc, Tally(CountOnes(bytes[i]), CountZeros(bytes[i]), FALSE)))

count_bits(bytes) == CountFrom(bytes, 1, Tally(0, 0, FALSE))

(* -------------------------------------------------------------- the seeds *)

\* A variant of BaseSeed that cycles the first byte of a short buffer only.
BaseSeedFirstByte(seed_bytes) ==
    IF Len(seed_bytes) >= SeedLen THEN SubSeq(seed_bytes, 1, SeedLen)
    ELSE IF Len(seed_bytes) = 0 THEN [i \in 1..SeedLen |-> 0]
    ELSE [i \in 1..SeedLen |-> seed_bytes[1]]

\* Lines 297-306: the first SeedLen bytes, or the buffer cycled to SeedLen
\* bytes; an empty buffer leaves the zero seed.
BaseSeed(seed_bytes) ==
    IF Len(seed_bytes) >= SeedLen THEN SubSeq(seed_bytes, 1, SeedLen)
    ELSE IF Len(seed_bytes) = 0 THEN [i \in 1..SeedLen |-> 0]
    ELSE [i \in 1..SeedLen |-> seed_bytes[((i - 1) % Len(seed_bytes)) + 1]]

RECURSIVE Pow256(_)
Pow256(n) == IF n = 0 THEN 1 ELSE 256 * Pow256(n - 1)

\* usize::to_le_bytes (line 315): byte i, counted from 0.
LeByte(flip_index, i) == (flip_index \div Pow256(i)) % 256

\* A variant of FlipSeed that mixes in the low byte of the index only.
FlipSeedLowByte(seed, flip_index) ==
    [i \in 1..SeedLen |->
        IF i = 1 THEN Xor(seed[i], LeByte(flip_index, 0)) ELSE seed[i]]

\* Lines 314-320: the little-endian bytes of the index xor-ed into the
\* front of the seed.
FlipSeed(seed, flip_index) ==
    [i \in 1..SeedLen |->
        IF i - 1 < UsizeBytes THEN Xor(seed[i], LeByte(flip_index, i - 1))
                              ELSE seed[i]]

\* StdRng::from_seed followed by fill_bytes (lines 323-325).  The generator is
\* the rand crate's; the model keeps what the program relies on: the output is
\* a function of the seed alone.  The stand-in folds the seed into a state and
\* steps a full-period congruential generator once per byte.
RECURSIVE SeedFold(_, _, _)
SeedFold(seed, i, h) ==
    IF i > Len(seed) THEN h ELSE SeedFold(seed, i + 1, (h * 31 + seed[i]) % 256)

RECURSIVE RngStep(_, _)
RngStep(state, k) == IF k = 0 THEN state ELSE RngStep((state * 5 + 1) % 256, k - 1)

StdRngFill(seed, n) == [k \in 1..n |-> RngStep(SeedFold(seed, 1, 7), k)]

(* ------------------------------------------------- the entropy providers *)

\* The literal 1024 of line 133: the byte count main asks the chain for.
NumBytes == FlipBytes

\* The literal 1024 of lines 359 and 439: ANU's largest request.
AnuMaxChunk == FlipBytes

Min(a, b) == IF a <= b THEN a ELSE b

Const(b, n) == [i \in 1..n |-> b]

\* What one ANU sub-request can come back with: the request fails, the status
\* is no success, the body is no AnuQrngResponse, or a response with its
\* success flag and its data (of the asked length, or one byte short).
AnuResponses(chunk_size) ==
    {[kind |-> k, success |-> FALSE, data |-> <<>>] : k \in {"send", "status", "json"}}
    \cup {[kind |-> "body", success |-> sc, data |-> Const(b, n)] :
            sc \in BOOLEAN, b \in SourceBytes, n \in {chunk_size - 1, chunk_size}}

\* fetch_anu_qrng_bytes (lines 433-468) on the responses the sub-requests get,
\* in request order: the first failing sub-request ends it with an error.
RECURSIVE AnuLoop(_, _, _, _)
AnuLoop(responses, k, remaining, all_bytes) ==
    IF remaining <= 0 THEN Ok(all_bytes)
    ELSE LET chunk_size == Min(remaining, AnuMaxChunk)
             r == responses[k]
         IN  IF r.kind # "body" THEN Err
             ELSE IF ~r.success THEN Err
             ELSE IF Len(r.data) # chunk_size THEN Err
             ELSE AnuLoop(responses, k + 1, remaining - chunk_size, all_bytes \o r.data)

fetch_anu_qrng_bytes(responses, num_bytes) == AnuLoop(responses, 1, num_bytes, <<>>)

\* The number of sub-requests a fetch of num_bytes issues when none fails.
AnuRequests(num_bytes) == (num_bytes + AnuMaxChunk - 1) \div AnuMaxChunk

\* The body lengths qrandom.io answers with: nothing checks them.
QrandomLens == {0, FlipBytes - 1, FlipBytes}

\* What the two qrandom.io requests can come back with: a failure of the first
\* (send, status, json) or of the second (binsend, binstatus, binbody), or the
\* body of the second.
QrandomResponses ==
    {[kind |-> k, data |-> <<>>] :
        k \in {"send", "status", "json", "binsend", "binstatus", "binbody"}}
    \cup {[kind |-> "body", data |-> Const(b, n)] : b \in SourceBytes, n \in QrandomLens}

\* fetch_qrandom_bytes (lines 411-431): the body as it came.
fetch_qrandom_bytes(response) ==
    IF response.kind # "body" THEN Err ELSE Ok(response.data)

\* A variant of fetch_crypto_srng_bytes whose generator may be unavailable.
fetch_crypto_srng_bytes_fallible(num_bytes) ==
    {Ok(Const(b, num_bytes)) : b \in SourceBytes} \cup {Err}

\* fetch_crypto_srng_bytes (lines 470-478): num_bytes bytes, never an error.
fetch_crypto_srng_bytes(num_bytes) == {Ok(Const(b, num_bytes)) : b \in SourceBytes}

\* A variant of NextSource that reads the cache before the second provider.
NextSourceCacheFirst(src) ==
    CASE src = "anu"     -> "cache"
      [] src = "cache"   -> "qrandom"
      [] src = "qrandom" -> "csrng"
      [] OTHER           -> "failed"

\* The order of fetch_random_bytes_with_source (lines 358-405).
NextSource(src) ==
    CASE src = "anu"     -> "qrandom"
      [] src = "qrandom" -> "cache"
      [] src = "cache"   -> "csrng"
      [] OTHER           -> "failed"

\* A variant of QuantumFlag that flags only the remote providers.
QuantumFlagRemoteOnly(src) == src \in {"anu", "qrandom"}

\* A variant of QuantumFlag that flags the bytes of every source.
QuantumFlagAll(src) == src \in {"anu", "qrandom", "cache", "csrng"}

\* The flag the chain returns beside the bytes of a source (lines 365-400).
QuantumFlag(src) == src \in {"anu", "qrandom", "cache"}

\* Lines 134-138.
ChainDescription(quantum) ==
    IF quantum THEN "Using quantum entropy sources"
               ELSE "Using saved quantum entropy"

\* Lines 174-178.
Outcome(o, z) == IF o > z THEN "YES" ELSE "NO"

(* ------------------------------------------------------------- the state *)

VARIABLES
    fs,                 \* the content of each path: text, or Missing
    fs_origin,          \* where the bytes a file encodes first came from
    overflow_checks,    \* whether the build panics on integer overflow:
                        \* "on" or "off", "unset" until an overflow shows it
    runs,               \* the runs started so far
    pc,                 \* where the run is
    num_flips,          \* args.num_flips
    output_file,        \* args.output_file
    source_file,        \* args.source_file
    hex_string,         \* args.hex_string
    tried,              \* the sources the chain attempted, each with its result
    entropy_bytes,      \* main's entropy_bytes
    is_quantum,         \* main's is_quantum
    source_description, \* main's source_description
    origin,             \* the source the bytes of this run first came from
    saved,              \* what the run did to its output file
    flips,              \* the parallel workers that have run
    parts,              \* the partial sums of the reduction
    ones,               \* main's ones
    zeros,              \* main's zeros
    outcome,            \* the verdict printed
    prev,               \* what the run before this one acquired and saved
    anu_fetch           \* a call of fetch_anu_qrng_bytes: its locals and its requests

vars == <<fs, fs_origin, overflow_checks, runs, pc, num_flips, output_file,
          source_file, hex_string, tried, entropy_bytes, is_quantum,
          source_description, origin, saved, flips, parts, ones, zeros,
          outcome, prev, anu_fetch>>

\* Option::None for the two optional arguments.
NoFile == "<none>"

NoHex == <<"<none>">>

\* The --hex arguments of the model.
HexInputs ==
    { <<"0", "x", "f", "f">>,
      <<"0", "f">>,
      <<" ", "0", "0", "F", "F", "0", "0", "f", "f", "\n">>,
      <<"z", "z">>,
      <<"0", "x">>,
      <<"f">> }

\* What the default cache path holds before the first run: nothing, or text
\* that no run wrote and that does not decode.
InitialCache == {Missing, <<"z", "z">>}

\* What the other path holds before the first run.
InitialOther == {Missing, <<"0", "x", "0", "f">>}

\* No call of fetch_anu_qrng_bytes is followed request by request.
NoFetch == [num_bytes |-> 0, remaining |-> 0, all_bytes |-> <<>>,
            requests |-> <<>>, result |-> "idle", returned |-> <<>>]

NoPrev == [remote |-> FALSE, bytes |-> <<>>, out |-> NoFile, wrote |-> FALSE]

Init ==
    /\ fs \in {[f \in FileNames |-> IF f = DEFAULT_OUTPUT_FILE THEN c ELSE o] :
                 c \in InitialCache, o \in InitialOther}
    /\ fs_origin = [f \in FileNames |-> "user"]
    /\ overflow_checks = "unset"
    /\ runs = 0
    /\ pc = "idle"
    /\ num_flips = 0
    /\ output_file = DEFAULT_OUTPUT_FILE
    /\ source_file = NoFile
    /\ hex_string = NoHex
    /\ tried = <<>>
    /\ entropy_bytes = <<>>
    /\ is_quantum = FALSE
    /\ source_description = ""
    /\ origin = "none"
    /\ saved = "no"
    /\ flips = {}
    /\ parts = {}
    /\ ones = 0
    /\ zeros = 0
    /\ outcome = "none"
    /\ prev = NoPrev
    /\ anu_fetch = NoFetch

\* The run is over: it printed its verdict, exited with status 1, or panicked.
Ended == pc \in {"idle", "done", "exit", "failed", "panic"}

\* What a run leaves for the next one to be compared with.
Summary ==
    IF origin \in {"anu", "qrandom"}
    THEN [remote |-> TRUE, bytes |-> entropy_bytes, out |-> output_file,
          wrote |-> saved = "written"]
    ELSE NoPrev

\* A new process: the arguments as parsed (line 57), nothing acquired yet.
Begin(n, o, s, h) ==
    /\ Ended
    /\ runs < MaxRuns
    /\ runs' = runs + 1
    /\ prev' = Summary
    /\ num_flips' = n
    /\ output_file' = o
    /\ source_file' = s
    /\ hex_string' = h
    /\ tried' = <<>>
    /\ saved' = "no"
    /\ flips' = {}
    /\ parts' = {}
    /\ ones' = 0
    /\ zeros' = 0
    /\ outcome' = "none"
    /\ UNCHANGED anu_fetch
    /\ UNCHANGED <<fs, fs_origin, overflow_checks>>

Nothing ==
    /\ entropy_bytes' = <<>>
    /\ is_quantum' = FALSE
    /\ source_description' = ""
    /\ origin' = "none"

\* Lines 63-66: a flip count of 0 is refused.
StartInvalid(o) ==
    /\ Begin(0, o, NoFile, NoHex)
    /\ Nothing
    /\ pc' = "exit"

\* Lines 77-103: --hex.
StartHex(n, o, h) ==
    /\ n >= 1
    /\ Begin(n, o, NoFile, h)
    /\ LET r == parse_hex_string(h)
       IN  IF r.ok /\ r.val # <<>>
           THEN /\ entropy_bytes' = r.val
                /\ is_quantum' = FALSE
                /\ source_description' = "Using hex string entropy"
                /\ origin' = "hex"
                /\ pc' = "save"
           ELSE /\ Nothing
                /\ pc' = "exit"

\* Lines 104-130: --source, which clap refuses together with -o.
StartSource(n, s) ==
    /\ n >= 1
    /\ Begin(n, DEFAULT_OUTPUT_FILE, s, NoHex)
    /\ LET r == read_source_file(fs, s)
       IN  IF r.ok /\ r.val # <<>>
           THEN /\ entropy_bytes' = r.val
                /\ is_quantum' = FALSE
                /\ source_description' = "Using file entropy"
                /\ origin' = "file"
                /\ pc' = "save"
           ELSE /\ Nothing
                /\ pc' = "exit"

\* Lines 131-133: neither override, the chain is entered.
StartDefault(n, o) ==
    /\ n >= 1
    /\ Begin(n, o, NoFile, NoHex)
    /\ Nothing
    /\ pc' = "anu"

(* ------------------------------------------------------------- the chain *)

\* One source of fetch_random_bytes_with_source has answered with r: on
\* success the function returns (lines 365, 377, 389, 400) and main builds its
\* description (lines 134-139); on failure the next source is up, and after
\* the last one the process exits (lines 407-408).
Attempt(src, r) ==
    /\ pc = src
    /\ tried' = Append(tried, [src |-> src, ok |-> r.ok, bytes |-> r.val])
    /\ IF r.ok
       THEN /\ entropy_bytes' = r.val
            /\ is_quantum' = QuantumFlag(src)
            /\ source_description' = ChainDescription(QuantumFlag(src))
            /\ origin' = src
            /\ pc' = "save"
       ELSE /\ pc' = NextSource(src)
            /\ UNCHANGED <<entropy_bytes, is_quantum, source_description, origin>>
    /\ UNCHANGED anu_fetch
    /\ UNCHANGED <<fs, fs_origin, overflow_checks, runs, num_flips, output_file,
                   source_file, hex_string, saved, flips, parts, ones, zeros,
                   outcome, prev>>

\* Lines 358-371.
TryAnu ==
    /\ pc = "anu"
    /\ LET n == Min(NumBytes, AnuMaxChunk)
       IN  \E responses \in [1..AnuRequests(n) -> AnuResponses(n)] :
               Attempt("anu", fetch_anu_qrng_bytes(responses, n))

\* Lines 373-383.
TryQrandom ==
    /\ pc = "qrandom"
    /\ \E response \in QrandomResponses :
           Attempt("qrandom", fetch_qrandom_bytes(response))

\* Lines 385-394.
TryCache == Attempt("cache", load_saved_quantum_bytes(fs))

\* Lines 396-405.
TryCsrng ==
    /\ pc = "csrng"
    /\ \E r \in fetch_crypto_srng_bytes(NumBytes) : Attempt("csrng", r)

(* -------------------------------------------------------------- the cache *)

\* Lines 144-151 with save_quantum_bytes_to_file (lines 202-208): fs::write
\* replaces the file, or fails and leaves it (the error is only printed).
Save ==
    /\ pc = "save"
    /\ IF (is_quantum /\ source_file = NoFile) \/ hex_string # NoHex
       THEN \E written \in BOOLEAN :
              IF written
              THEN /\ fs' = [fs EXCEPT ![output_file] = HexEncode(entropy_bytes)]
                   /\ fs_origin' = [fs_origin EXCEPT ![output_file] =
                          IF origin = "cache" THEN fs_origin[DEFAULT_OUTPUT_FILE]
                                              ELSE origin]
                   /\ saved' = "written"
              ELSE /\ saved' = "failed"
                   /\ UNCHANGED <<fs, fs_origin>>
       ELSE UNCHANGED <<fs, fs_origin, saved>>
    /\ pc' = "sample"
    /\ UNCHANGED anu_fetch
    /\ UNCHANGED <<overflow_checks, runs, num_flips, output_file, source_file,
                   hex_string, tried, entropy_bytes, is_quantum,
                   source_description, origin, flips, parts, ones, zeros,
                   outcome, prev>>

(* ----------------------------------------------------------- the sampling *)

\* The builds the run may turn out to be once tally t has been computed: the
\* build is the same throughout, and the first overflow shows which it is.
Builds(t) ==
    IF t.ovf /\ overflow_checks = "unset" THEN {"on", "off"} ELSE {overflow_checks}

\* An addition overflowed in a build that checks: the thread panics, and
\* rayon hands the panic to main.
Panics(t, build) == t.ovf /\ build = "on"

\* A variant of FlipIndices that leaves the last worker out.
FlipIndicesShort == 0..(num_flips - 3)

\* The flip indices of perform_multiple_flips (line 310).
FlipIndices == 0..(num_flips - 2)

\* A variant of WorkerSeed in which the workers share one counter: the seed
\* depends on how many workers ran before.
WorkerSeedShared(flip_index) ==
    FlipSeed(BaseSeed(entropy_bytes), flip_index + Cardinality(flips))

\* Lines 314-320 in worker flip_index: the seed of its own generator.
WorkerSeed(flip_index) == FlipSeed(BaseSeed(entropy_bytes), flip_index)

\* Lines 153-158: one flip, the entropy counted directly; or lines 159-166,
\* perform_multiple_flips is entered.
Sample ==
    /\ pc = "sample"
    /\ IF num_flips = 1
       THEN LET t == count_bits(entropy_bytes)
            IN  \E build \in Builds(t) :
                  /\ overflow_checks' = build
                  /\ IF Panics(t, build)
                     THEN /\ pc' = "panic"
                          /\ UNCHANGED <<ones, zeros>>
                     ELSE /\ ones' = t.ones
                          /\ zeros' = t.zeros
                          /\ pc' = "verdict"
       ELSE /\ pc' = "flips"
            /\ UNCHANGED <<ones, zeros, overflow_checks>>
    /\ UNCHANGED anu_fetch
    /\ UNCHANGED <<fs, fs_origin, runs, num_flips, output_file, source_file,
                   hex_string, tried, entropy_bytes, is_quantum,
                   source_description, origin, saved, flips, parts, outcome, prev>>

\* Lines 312-329: one worker, on its own seed, generator and buffer; its
\* tally is handed to the reduction.
Worker(i) ==
    /\ pc = "flips"
    /\ i \in FlipIndices
    /\ \A f \in flips : f.idx # i
    /\ LET flip_seed == WorkerSeed(i)
           t == count_bits(StdRngFill(flip_seed, FlipBytes))
       IN  \E build \in Builds(t) :
             /\ overflow_checks' = build
             /\ flips' = flips \cup {[idx |-> i, seed |-> flip_seed, tally |-> t]}
             /\ IF Panics(t, build)
                THEN /\ pc' = "panic"
                     /\ UNCHANGED parts
                ELSE /\ parts' = parts \cup {[ids |-> {i}, tally |-> t]}
                     /\ UNCHANGED pc
    /\ UNCHANGED anu_fetch
    /\ UNCHANGED <<fs, fs_origin, runs, num_flips, output_file, source_file,
                   hex_string, tried, entropy_bytes, is_quantum,
                   source_description, origin, saved, ones, zeros, outcome, prev>>

\* Line 330: the reduction adds two partial sums, whichever two are ready.
Combine(p, q) ==
    /\ pc = "flips"
    /\ p \in parts
    /\ q \in parts
    /\ p # q
    /\ LET t == TallyAdd(p.tally, q.tally)
       IN  \E build \in Builds(t) :
             /\ overflow_checks' = build
             /\ IF Panics(t, build)
                THEN /\ pc' = "panic"
                     /\ UNCHANGED parts
                ELSE /\ parts' = (parts \ {p, q})
                                   \cup {[ids |-> p.ids \cup q.ids, tally |-> t]}
                     /\ UNCHANGED pc
    /\ UNCHANGED anu_fetch
    /\ UNCHANGED <<fs, fs_origin, runs, num_flips, output_file, source_file,
                   hex_string, tried, entropy_bytes, is_quantum,
                   source_description, origin, saved, flips, ones, zeros, outcome, prev>>

\* Lines 339-347 and 166-168: every worker is in the one remaining sum; the
\* direct tally of the entropy is added to it.
Finish ==
    /\ pc = "flips"
    /\ \E p \in parts :
         /\ p.ids = FlipIndices
         /\ LET t == TallyAdd(p.tally, count_bits(entropy_bytes))
            IN  \E build \in Builds(t) :
                  /\ overflow_checks' = build
                  /\ IF Panics(t, build)
                     THEN /\ pc' = "panic"
                          /\ UNCHANGED <<ones, zeros>>
                     ELSE /\ ones' = t.ones
                          /\ zeros' = t.zeros
                          /\ pc' = "verdict"
    /\ UNCHANGED anu_fetch
    /\ UNCHANGED <<fs, fs_origin, runs, num_flips, output_file, source_file,
                   hex_string, tried, entropy_bytes, is_quantum,
                   source_description, origin, saved, flips, parts, outcome, prev>>

\* Lines 172-178.
Verdict ==
    /\ pc = "verdict"
    /\ outcome' = Outcome(ones, zeros)
    /\ pc' = "done"
    /\ UNCHANGED anu_fetch
    /\ UNCHANGED <<fs, fs_origin, overflow_checks, runs, num_flips, output_file,
                   source_file, hex_string, tried, entropy_bytes, is_quantum,
                   source_description, origin, saved, flips, parts, ones, zeros,
                   prev>>

\* A run of the program, with the arguments of one of its four modes.
Start ==
    /\ Ended
    /\ \/ \E o \in FileNames : StartInvalid(o)
       \/ \E n \in 1..MaxRunFlips, o \in FileNames, h \in HexInputs : StartHex(n, o, h)
       \/ \E n \in 1..MaxRunFlips, s \in FileNames : StartSource(n, s)
       \/ \E n \in 1..MaxRunFlips, o \in FileNames : StartDefault(n, o)

Next ==
    \/ Start
    \/ TryAnu
    \/ TryQrandom
    \/ TryCache
    \/ TryCsrng
    \/ Save
    \/ Sample
    \/ \E i \in 0..(MaxFlips - 2) : Worker(i)
    \/ \E p, q \in parts : Combine(p, q)
    \/ Finish
    \/ Verdict

Spec == Init /\ [][Next]_vars

(* ------------------------------------------------- the sampling on its own *)

\* The entropy buffers the sampling is checked with: empty, of one byte, as
\* long as a flip, longer than a seed; of one byte value or mixed.
SampleBuffers ==
    {Const(b, n) : b \in ByteVals, n \in {0, 1, FlipBytes}}
    \cup {<<0, 255>>, <<255, 15, 0>>, Const(15, SeedLen + 1)}

\* main has its entropy (line 140) and its file is saved: lines 153-178 are
\* left, for every buffer and every flip count of the bounds.
InitFlips ==
    /\ fs = [f \in FileNames |-> Missing]
    /\ fs_origin = [f \in FileNames |-> "user"]
    /\ overflow_checks = "unset"
    /\ runs = 1
    /\ pc = "sample"
    /\ num_flips \in 1..MaxFlips
    /\ output_file = DEFAULT_OUTPUT_FILE
    /\ source_file = NoFile
    /\ hex_string = NoHex
    /\ tried = <<>>
    /\ entropy_bytes \in SampleBuffers
    /\ is_quantum = FALSE
    /\ source_description = ""
    /\ origin = "none"
    /\ saved = "no"
    /\ flips = {}
    /\ parts = {}
    /\ ones = 0
    /\ zeros = 0
    /\ outcome = "none"
    /\ prev = NoPrev
    /\ anu_fetch = NoFetch

NextFlips ==
    \/ Sample
    \/ \E i \in 0..(MaxFlips - 2) : Worker(i)
    \/ \E p, q \in parts : Combine(p, q)
    \/ Finish
    \/ Verdict

SpecFlips == InitFlips /\ [][NextFlips]_vars

(* ------------------------------------------ the ANU fetch, request by request *)

\* The largest byte count fetch_anu_qrng_bytes is called with on its own.
MaxAnuBytes == 5

\* A variant of AnuChunkOk that does not compare the length of the data.
AnuChunkOkAnyLength(r, chunk_size) == r.kind = "body" /\ r.success

\* Lines 442-456: the request went through, the status is a success, the
\* body is an AnuQrngResponse, its success flag is set and its data has the
\* length asked for.
AnuChunkOk(r, chunk_size) ==
    r.kind = "body" /\ r.success /\ Len(r.data) = chunk_size

\* Everything but anu_fetch.
main_vars == <<fs, fs_origin, overflow_checks, runs, pc, num_flips, output_file,
               source_file, hex_string, tried, entropy_bytes, is_quantum,
               source_description, origin, saved, flips, parts, ones, zeros,
               outcome, prev>>

\* Lines 433-438: fetch_anu_qrng_bytes is called; with nothing to fetch the
\* loop is not entered and the empty buffer is returned (line 467).
AnuCall(n) ==
    /\ pc = "fetch_anu"
    /\ anu_fetch.result = "idle"
    /\ anu_fetch' = [num_bytes |-> n, remaining |-> n, all_bytes |-> <<>>,
                     requests |-> <<>>,
                     result |-> IF n > 0 THEN "running" ELSE "ok",
                     returned |-> <<>>]
    /\ UNCHANGED main_vars

\* Lines 438-465: one turn of the loop, with the response r to its request;
\* a bad response returns the error, dropping all_bytes, and the turn that
\* brings remaining to 0 leaves the loop and returns all_bytes (line 467).
AnuRequest ==
    /\ pc = "fetch_anu"
    /\ anu_fetch.result = "running"
    /\ anu_fetch.remaining > 0
    /\ LET chunk_size == Min(anu_fetch.remaining, AnuMaxChunk)
       IN  \E r \in AnuResponses(chunk_size) :
             LET asked == Append(anu_fetch.requests,
                                 [chunk_size |-> chunk_size, response |-> r])
             IN  IF AnuChunkOk(r, chunk_size)
                 THEN LET got == anu_fetch.all_bytes \o r.data
                          left == anu_fetch.remaining - chunk_size
                      IN  anu_fetch' =
                            [anu_fetch EXCEPT
                               !.requests = asked,
                               !.all_bytes = got,
                               !.remaining = left,
                               !.result = IF left > 0 THEN "running" ELSE "ok",
                               !.returned = IF left > 0 THEN <<>> ELSE got]
                 ELSE anu_fetch' =
                        [anu_fetch EXCEPT !.requests = asked, !.result = "err"]
    /\ UNCHANGED main_vars

InitAnu ==
    /\ fs = [f \in FileNames |-> Missing]
    /\ fs_origin = [f \in FileNames |-> "user"]
    /\ overflow_checks = "unset"
    /\ runs = 1
    /\ pc = "fetch_anu"
    /\ num_flips = 1
    /\ output_file = DEFAULT_OUTPUT_FILE
    /\ source_file = NoFile
    /\ hex_string = NoHex
    /\ tried = <<>>
    /\ entropy_bytes = <<>>
    /\ is_quantum = FALSE
    /\ source_description = ""
    /\ origin = "none"
    /\ saved = "no"
    /\ flips = {}
    /\ parts = {}
    /\ ones = 0
    /\ zeros = 0
    /\ outcome = "none"
    /\ prev = NoPrev
    /\ anu_fetch = NoFetch

NextAnu ==
    \/ \E n \in 0..MaxAnuBytes : AnuCall(n)
    \/ AnuRequest

SpecAnu == InitAnu /\ [][NextAnu]_vars

(* -------------------------------------------------- the --hex argument *)

\* The characters the --hex arguments are made of: hex digits of either case,
\* the two letters of the prefix, white space, and a letter that is no digit.
ParseAlphabet == {"0", "x", "X", "f", "A", " ", "z"}

\* The longest argument that is enumerated character by character.
MaxHexLen == 3

\* The --hex arguments parse_hex_string is checked with: every text of up to
\* MaxHexLen characters, and longer ones with and without prefix and space.
ParseInputs ==
    UNION {[1..k -> ParseAlphabet] : k \in 0..MaxHexLen}
    \cup HexInputs
    \cup { <<"0", "x", "d", "e", "a", "d", "b", "e", "e", "f">>,
           <<"0", "X", "F", "f">>,
           <<" ", "0", "x", "0", "f", "\n">>,
           <<"0", "x", "0", "x", "0", "f">>,
           <<"0", "x", "0", "f", "z", "0">>,
           <<"0", "f", " ", "0", "f">> }

\* Lines 77-103 in one run, on each of these arguments.
NextHex ==
    /\ runs = 0
    /\ \E o \in FileNames, h \in ParseInputs : StartHex(1, o, h)

SpecHex == Init /\ [][NextHex]_vars

(* ------------------------------------------------------------ the claims *)

Order == <<"anu", "qrandom", "cache", "csrng">>

ChainPcs == {"anu", "qrandom", "cache", "csrng"}

\* The chain of this run has returned a buffer.
ChainReturned == origin \in ChainPcs

\* C1: the four sources are attempted in the order ANU, qrandom.io, cache
\* file, CSRNG; a source is attempted only after every earlier one failed;
\* once a source succeeds no later one is attempted and the chain returns
\* the bytes of that source.
C1_SourceOrder ==
    /\ Len(tried) <= Len(Order)
    /\ \A k \in DOMAIN tried : tried[k].src = Order[k]
    /\ \A k \in DOMAIN tried : k < Len(tried) => ~tried[k].ok
    /\ pc \in ChainPcs =>
         /\ pc = Order[Len(tried) + 1]
         /\ \A k \in DOMAIN tried : ~tried[k].ok
    /\ (tried # <<>> /\ tried[Len(tried)].ok) =>
         /\ pc \notin ChainPcs
         /\ origin = tried[Len(tried)].src
         /\ entropy_bytes = tried[Len(tried)].bytes

\* The primary provider failed and the secondary provider's payload, of the
\* requested length, is what the chain returned.
C1_Witness ==
    /\ pc = "save"
    /\ Len(tried) = 2
    /\ ~tried[1].ok
    /\ tried[2].ok
    /\ Len(tried[2].bytes) = NumBytes
    /\ entropy_bytes = tried[2].bytes
    /\ is_quantum

\* C2: whatever the two remote providers and the cache read do, the chain
\* returns a buffer: the exit "all entropy sources failed" is never reached,
\* and a chain that came to the CSRNG got its bytes from it.
C2_NeverExhausted ==
    /\ pc # "failed"
    /\ Len(tried) = Len(Order) => tried[Len(Order)].ok /\ ChainReturned

\* Both remote providers and the cache read failed, and the chain returned.
C2_Witness ==
    /\ Len(tried) = 4
    /\ ~tried[1].ok
    /\ ~tried[2].ok
    /\ ~tried[3].ok
    /\ pc = "save"
    /\ entropy_bytes = tried[4].bytes

\* The cache file is missing or its trimmed text does not decode.
CacheUnusable ==
    \/ fs[DEFAULT_OUTPUT_FILE] = Missing
    \/ ~HexDecode(Trim(fs[DEFAULT_OUTPUT_FILE])).ok

\* C3: when both remote providers fail and the cache file is missing or
\* undecodable, the chain returns is_quantum = false with exactly the
\* requested number of bytes; and the chain returns is_quantum = false only
\* when the bytes came from the local CSRNG.
C3_Fallback ==
    ChainReturned =>
        /\ ~is_quantum <=> origin = "csrng"
        /\ origin = "csrng" => Len(entropy_bytes) = NumBytes
        /\ (/\ pc = "save"
            /\ Len(tried) >= 2
            /\ ~tried[1].ok
            /\ ~tried[2].ok
            /\ CacheUnusable)
           => (~is_quantum /\ origin = "csrng" /\ Len(entropy_bytes) = NumBytes)

\* Both remote providers failed, the cache file holds text that does not
\* decode, and the chain returned the CSRNG's bytes.
C3_Witness ==
    /\ pc = "save"
    /\ Len(tried) = 4
    /\ fs[DEFAULT_OUTPUT_FILE] # Missing
    /\ CacheUnusable
    /\ origin = "csrng"
    /\ ~is_quantum
    /\ Len(entropy_bytes) = NumBytes

\* C4: whenever the chain returns bytes read from the cache file, those
\* bytes were first obtained by an earlier run from one of the two remote
\* providers.
C4_CacheHoldsRemoteBytes ==
    origin = "cache" => fs_origin[DEFAULT_OUTPUT_FILE] \in {"anu", "qrandom"}

\* The chain of this run came to read the cache: both remote providers failed.
CacheRead == Len(tried) >= 3

PhysicalDescriptions ==
    {"Using quantum entropy sources", "Using saved quantum entropy"}

\* C6: the description a run reports tells the regimes apart: bytes of the
\* local CSRNG are never reported as quantum or saved quantum entropy, and
\* bytes of a remote provider or of the cache are reported as physical.
C6_Report ==
    ChainReturned =>
        /\ origin = "csrng" => source_description \notin PhysicalDescriptions
        /\ origin \in {"anu", "qrandom", "cache"} =>
               source_description \in PhysicalDescriptions

\* C7: a tally with ones = zeros is reported as a tie, Yes only when
\* ones > zeros and No only when zeros > ones.
C7_Verdict ==
    pc = "done" =>
        /\ ones = zeros => outcome = "TIE"
        /\ outcome = "YES" => ones > zeros
        /\ outcome = "NO" => zeros > ones

\* C8: every worker's tally has ones + zeros = 8 * 1024, and the final tally
\* has ones + zeros = 8 * (1024 * (num_flips - 1) + len(entropy)).
C8_TallySum ==
    /\ \A f \in flips : f.tally.ones + f.tally.zeros = 8 * FlipBytes
    /\ pc \in {"verdict", "done"} =>
         ones + zeros = 8 * (FlipBytes * (num_flips - 1) + Len(entropy_bytes))

\* The tally of worker flip_index as a function of the entropy and the index.
OwnTally(flip_index) ==
    count_bits(StdRngFill(FlipSeed(BaseSeed(entropy_bytes), flip_index), FlipBytes))

\* The sum of the workers lo..hi taken one after the other in index order.
RECURSIVE InOrder(_, _)
InOrder(lo, hi) ==
    IF lo > hi THEN Tally(0, 0, FALSE)
    ELSE TallyAdd(InOrder(lo, hi - 1), OwnTally(hi))

\* The same sum over a set of workers.
RECURSIVE InOrderOf(_)
InOrderOf(ids) ==
    IF ids = {} THEN Tally(0, 0, FALSE)
    ELSE LET hi == CHOOSE i \in ids : \A j \in ids : j <= i
         IN  TallyAdd(InOrderOf(ids \ {hi}), OwnTally(hi))

\* C9: perform_multiple_flips is deterministic under scheduling: whatever
\* the order the workers ran in and the order and grouping their tallies
\* were added in, each worker's seed and tally depend on the entropy and its
\* own index alone, each partial sum is the in-order sum of its workers, and
\* the final tally is the in-order sum of all workers plus the direct tally.
C9_Deterministic ==
    /\ \A f \in flips :
         /\ f.seed = FlipSeed(BaseSeed(entropy_bytes), f.idx)
         /\ f.tally = OwnTally(f.idx)
    /\ \A p \in parts : p.tally = InOrderOf(p.ids)
    /\ (pc \in {"verdict", "done"} /\ num_flips > 1) =>
         LET t == TallyAdd(InOrder(0, num_flips - 2), count_bits(entropy_bytes))
         IN  ones = t.ones /\ zeros = t.zeros

\* Of three workers the last two have had their tallies added, before the
\* first one's, which is a different tally, joined them.
C9_Witness ==
    /\ num_flips = 4
    /\ \E p \in parts : p.ids = {1, 2}
    /\ \E f \in flips : f.idx = 0 /\ f.tally # OwnTally(1)

\* The flip indices the seeds are compared at, besides those of the run:
\* around the first byte boundary, and the largest a usize holds.
IndexSamples == {0, 1, 2, 255, 256, 257, Pow256(UsizeBytes) - 1}

\* C10: two distinct flip indices get distinct seeds from the same entropy
\* buffer: no two workers of a run share a seed.
C10_DistinctSeeds ==
    /\ \A f, g \in flips : f.idx # g.idx => f.seed # g.seed
    /\ pc = "flips" =>
         \A i, j \in IndexSamples \cup FlipIndices :
            i # j => FlipSeed(BaseSeed(entropy_bytes), i)
                       # FlipSeed(BaseSeed(entropy_bytes), j)

\* Every worker of a run of four flips has run, each on a seed of its own.
C10_Witness ==
    /\ num_flips = 4
    /\ Cardinality(flips) = 3
    /\ Cardinality({f.seed : f \in flips}) = 3

\* The buffers that agree with bytes on the first SeedLen bytes and differ
\* from it in one later byte.
SameHead(bytes) ==
    {b \in {[bytes EXCEPT ![j] = v] : j \in (SeedLen + 1)..Len(bytes), v \in ByteVals} :
        b # bytes}

\* C11: for an entropy buffer at least as long as the seed, the seed is no
\* truncation of it: some buffer that agrees with it on the first 32 bytes
\* and differs in a later byte gives a worker another seed.
C11_EveryByteInfluences ==
    Len(entropy_bytes) > SeedLen =>
        \A f \in flips :
            \E other \in SameHead(entropy_bytes) :
                FlipSeed(BaseSeed(other), f.idx) # f.seed

\* C12: hex round trip: once save_quantum_bytes_to_file has written a buffer
\* of any length, zero included, the text of the file decodes to exactly that
\* buffer, and load_saved_quantum_bytes, which reads qrandom.bytes, returns
\* exactly that buffer when that is the file written.
C12_RoundTrip ==
    saved = "written" =>
        /\ HexDecode(Trim(fs[output_file])) = Ok(entropy_bytes)
        /\ output_file = DEFAULT_OUTPUT_FILE =>
               load_saved_quantum_bytes(fs) = Ok(entropy_bytes)

\* A buffer of length zero was written to qrandom.bytes and reads back.
C12_Witness ==
    /\ saved = "written"
    /\ output_file = DEFAULT_OUTPUT_FILE
    /\ entropy_bytes = <<>>
    /\ fs[DEFAULT_OUTPUT_FILE] = <<>>
    /\ load_saved_quantum_bytes(fs) = Ok(<<>>)

\* What is left of a --hex argument once the white space around it and one
\* 0x or 0X in front of it are taken away.
Remainder(h) ==
    LET t == Trim(h)
    IN  IF Len(t) >= 2 /\ t[1] = "0" /\ t[2] \in {"x", "X"}
        THEN SubSeq(t, 3, Len(t))
        ELSE t

\* A non-empty text of an even number of hex digits.
WellFormedHex(rem) ==
    /\ rem # <<>>
    /\ Len(rem) % 2 = 0
    /\ \A i \in DOMAIN rem : IsHexDigit(rem[i])

\* C13: parse_hex_string returns the decoded bytes, two hex digits per byte
\* in order, exactly when the remainder of its argument is a non-empty text
\* of an even number of hex digits, and an error otherwise: "0xdeadbeef" is
\* de ad be ef, "zz" is refused.
C13_ParseHex ==
    hex_string # NoHex =>
        LET rem == Remainder(hex_string)
        IN  /\ IF WellFormedHex(rem)
               THEN /\ origin = "hex"
                    /\ Len(entropy_bytes) = Len(rem) \div 2
                    /\ \A i \in DOMAIN entropy_bytes :
                         entropy_bytes[i] =
                             16 * HexVal(rem[2 * i - 1]) + HexVal(rem[2 * i])
               ELSE /\ pc = "exit"
                    /\ origin = "none"
                    /\ entropy_bytes = <<>>
            /\ hex_string = <<"0", "x", "d", "e", "a", "d", "b", "e", "e", "f">>
                 => entropy_bytes = <<222, 173, 190, 239>>
            /\ hex_string = <<"z", "z">> => pc = "exit"

\* The argument 0xdeadbeef has been parsed to its four bytes.
C13_Witness ==
    /\ hex_string = <<"0", "x", "d", "e", "a", "d", "b", "e", "e", "f">>
    /\ entropy_bytes = <<222, 173, 190, 239>>
    /\ origin = "hex"
    /\ pc = "save"

\* The run was given an explicit override that is malformed: a --hex text
\* that is no hex string, or a --source file that is unreadable or empty.
MalformedOverride ==
    \/ hex_string # NoHex /\ ~WellFormedHex(Remainder(hex_string))
    \/ source_file # NoFile /\ fs[source_file] \in {Missing, <<>>}

\* C14: a run with a malformed explicit override ends at once with exit
\* status 1: no source of the chain is tried, no file is written, nothing is
\* sampled and no verdict is reported.
C14_FatalOverride ==
    MalformedOverride =>
        /\ pc = "exit"
        /\ tried = <<>>
        /\ origin = "none"
        /\ entropy_bytes = <<>>
        /\ saved = "no"
        /\ flips = {}
        /\ parts = {}
        /\ ones = 0
        /\ zeros = 0
        /\ outcome = "none"

\* A run was pointed with --source at a file that an earlier run had written
\* empty, and has exited.
C14_Witness ==
    /\ source_file # NoFile
    /\ fs[source_file] = <<>>
    /\ fs_origin[source_file] = "qrandom"
    /\ pc = "exit"
    /\ saved = "no"
    /\ outcome = "none"

\* The data of the requests 1..k one after the other.
RECURSIVE ChunksTo(_, _)
ChunksTo(requests, k) ==
    IF k = 0 THEN <<>> ELSE ChunksTo(requests, k - 1) \o requests[k].response.data

\* A sub-request that came back with a success status, success = true and as
\* many bytes as it asked for.
GoodRequest(q) ==
    /\ q.response.kind = "body"
    /\ q.response.success
    /\ Len(q.response.data) = q.chunk_size

\* C15: fetch_anu_qrng_bytes(n) asks for min(remaining, 1024) bytes at a
\* time, one request after the other; it returns n bytes, the chunks in
\* request order, only if every request was good; the first bad request is
\* the last one issued and makes it return an error and no byte.
C15_AnuChunks ==
    LET f == anu_fetch
        last == Len(f.requests)
    IN  f.result # "idle" =>
          /\ \A k \in DOMAIN f.requests :
               LET before == f.num_bytes - AnuMaxChunk * (k - 1)
               IN  /\ before > 0
                   /\ f.requests[k].chunk_size =
                        (IF before < AnuMaxChunk THEN before ELSE AnuMaxChunk)
                   /\ k < last => GoodRequest(f.requests[k])
          /\ f.result = "running" =>
               /\ \A k \in DOMAIN f.requests : GoodRequest(f.requests[k])
               /\ Len(f.all_bytes) < f.num_bytes
               /\ f.returned = <<>>
          /\ f.result = "ok" =>
               /\ \A k \in DOMAIN f.requests : GoodRequest(f.requests[k])
               /\ Len(f.returned) = f.num_bytes
               /\ f.returned = ChunksTo(f.requests, last)
          /\ f.result = "err" =>
               /\ last >= 1
               /\ ~GoodRequest(f.requests[last])
               /\ f.returned = <<>>

\* The third request of a fetch failed after two chunks had been collected:
\* the fetch returned an error and none of them.
C15_Witness ==
    /\ anu_fetch.result = "err"
    /\ Len(anu_fetch.requests) = 3
    /\ Len(anu_fetch.all_bytes) = 2 * AnuMaxChunk
    /\ anu_fetch.returned = <<>>

\* C16: a short read from a remote provider counts as that provider's
\* failure: whenever the chain returns bytes of the primary or the secondary
\* remote provider, they are exactly as many as were requested.
C16_ExactLength ==
    /\ \A k \in DOMAIN tried :
         (tried[k].src \in {"anu", "qrandom"} /\ tried[k].ok) =>
             Len(tried[k].bytes) = NumBytes
    /\ origin \in {"anu", "qrandom"} => Len(entropy_bytes) = NumBytes

\* The run is past lines 144-151.
PastSave == pc \in {"sample", "flips", "verdict", "done", "panic"}

\* C17, in every state: a run whose chain returned the CSRNG's bytes has
\* written nothing; a run whose chain returned a remote provider's bytes has
\* called fs::write on its output file, which then holds the hex text of
\* exactly those bytes; the chain read the cache at most once, and does not
\* read it after the write.
C17_Gated ==
    /\ origin = "csrng" => saved = "no"
    /\ (origin \in {"anu", "qrandom"} /\ PastSave) =>
         /\ saved # "no"
         /\ saved = "written" => fs[output_file] = HexEncode(entropy_bytes)
    /\ Cardinality({k \in DOMAIN tried : tried[k].src = "cache"}) <= 1
    /\ saved # "no" => pc \notin ChainPcs

\* C17, in every step: a file changes only in the save of a run that has not
\* written before, and it is that run's output file alone; a run of CSRNG
\* quality changes no file.
C17_Step ==
    /\ fs' # fs =>
         /\ pc = "save"
         /\ saved = "no"
         /\ saved' = "written"
         /\ origin # "csrng"
         /\ \A f \in FileNames \ {output_file} : fs'[f] = fs[f]
    /\ saved' # saved =>
         \/ pc = "save" /\ saved = "no"
         \/ Ended /\ saved' = "no"

\* C17: persistence is gated on quality, and within a run the cache file is
\* read at most once and written at most once, the read before the write.
C17_Persistence == [](C17_Gated) /\ [][C17_Step]_vars

\* A run saved a remote provider's bytes to its output file; the next run
\* got its bytes from the CSRNG and has ended with that file as it was.
C17_Witness ==
    /\ prev.remote
    /\ prev.wrote
    /\ origin = "csrng"
    /\ pc = "done"
    /\ saved = "no"
    /\ fs[prev.out] = HexEncode(prev.bytes)

\* The tallies of a set of workers added up, each once.
RECURSIVE SumOfFlips(_)
SumOfFlips(fl) ==
    IF fl = {} THEN Tally(0, 0, FALSE)
    ELSE LET f == CHOOSE g \in fl : TRUE
         IN  TallyAdd(SumOfFlips(fl \ {f}), f.tally)

\* C18: sampling starts only once acquisition has returned a buffer; no
\* worker runs twice and no tally is in two partial sums; the verdict comes
\* only after the workers 0 .. num_flips - 2 have all run, and the final
\* tally is the sum of each worker's tally and of the direct tally of the
\* entropy buffer, each taken once.
C18_AllOnce ==
    /\ (pc \in {"sample", "flips", "verdict", "done"} \/ flips # {}) =>
         /\ origin # "none"
         /\ origin \in ChainPcs => (tried[Len(tried)].ok /\ pc \notin ChainPcs)
    /\ \A f, g \in flips : f.idx = g.idx => f = g
    /\ \A p, q \in parts : p # q => p.ids \cap q.ids = {}
    /\ pc = "flips" => UNION {p.ids : p \in parts} = {f.idx : f \in flips}
    /\ (pc \in {"verdict", "done"} /\ num_flips > 1) =>
         /\ {f.idx : f \in flips} = 0..(num_flips - 2)
         /\ Cardinality(flips) = num_flips - 1
         /\ \A p \in parts : p.ids = 0..(num_flips - 2)
         /\ LET t == TallyAdd(SumOfFlips(flips), count_bits(entropy_bytes))
            IN  ones = t.ones /\ zeros = t.zeros
    /\ outcome # "none" => pc = "done"

\* A run of three flips on bytes of the chain has reported its verdict: both
\* workers have run, with different tallies.
C18_Witness ==
    /\ origin \in ChainPcs
    /\ num_flips = 3
    /\ pc = "done"
    /\ outcome # "none"
    /\ Cardinality({f.tally : f \in flips}) = 2

\* The buffers that differ from bytes in exactly one byte.
OneByteChanged(bytes) ==
    {b \in {[bytes EXCEPT ![j] = v] : j \in DOMAIN bytes, v \in ByteVals} :
        b # bytes}

\* The byte of a buffer that cycling puts at position i of the seed.
Cycled(bytes, i) == bytes[((i - 1) % Len(bytes)) + 1]

\* C19: for a non-empty entropy buffer shorter than the seed, the base seed
\* is the buffer cycled to the width of the seed, each position the exclusive
\* or of the zero seed with the one byte that lands on it; every worker's
\* seed is made from it, and changing any one byte of the buffer changes the base
\* seed and every worker's seed.
C19_ShortBufferFold ==
    (Len(entropy_bytes) > 0 /\ Len(entropy_bytes) < SeedLen) =>
        /\ \A i \in 1..SeedLen :
             BaseSeed(entropy_bytes)[i] = Xor(0, Cycled(entropy_bytes, i))
        /\ \A other \in OneByteChanged(entropy_bytes) :
             BaseSeed(other) # BaseSeed(entropy_bytes)
        /\ \A f \in flips :
             /\ f.seed = FlipSeed([i \in 1..SeedLen |->
                                     Cycled(entropy_bytes, i)], f.idx)
             /\ \A other \in OneByteChanged(entropy_bytes) :
                  FlipSeed(BaseSeed(other), f.idx) # f.seed

\* A worker has been seeded from a buffer of two different bytes, shorter
\* than the seed.
C19_Witness ==
    /\ Len(entropy_bytes) = 2
    /\ Len(entropy_bytes) < SeedLen
    /\ entropy_bytes[1] # entropy_bytes[2]
    /\ flips # {}

\* The number of one bits of a buffer, as a number of any size.
RECURSIVE OnesOf(_, _)
OnesOf(bytes, n) == IF n = 0 THEN 0 ELSE OnesOf(bytes, n - 1) + CountOnes(bytes[n])

\* The number of one bits of all the buffers the workers in fl filled.
RECURSIVE WorkerOnes(_)
WorkerOnes(fl) ==
    IF fl = {} THEN 0
    ELSE LET f == CHOOSE g \in fl : TRUE
         IN  WorkerOnes(fl \ {f}) + OnesOf(StdRngFill(f.seed, FlipBytes), FlipBytes)

\* C20: for every flip count of at least 1 and every entropy buffer no
\* addition of the tallies overflows: no run panics, no partial sum has
\* wrapped around, and the final counters hold the true numbers of one and
\* zero bits sampled.
C20_NoOverflow ==
    /\ pc # "panic"
    /\ \A f \in flips : ~f.tally.ovf
    /\ \A p \in parts : ~p.tally.ovf
    /\ pc \in {"verdict", "done"} =>
         LET bits == 8 * (FlipBytes * (num_flips - 1) + Len(entropy_bytes))
             true_ones == WorkerOnes(flips)
                            + OnesOf(entropy_bytes, Len(entropy_bytes))
         IN  ones = true_ones /\ zeros = bits - true_ones

\* C21: the entropy buffer that is counted and that seeds the workers is
\* never empty, whichever origin it has, and no verdict is derived from a
\* tally of 0 ones and 0 zeros.
C21_NonEmptyEntropy ==
    /\ pc \in {"sample", "flips", "verdict", "done"} => entropy_bytes # <<>>
    /\ pc = "done" => ones + zeros > 0

====
